---- MODULE Spec2Model ----
(***************************************************************************)
(* A model of the LegCo search gateway (src/src/legco_search_mcp/server.py) *)
(* : the validators, the sanitizer, the per-endpoint filter compiler, the   *)
(* transport call and the response normaliser of class LegCoSearchMCP.      *)
(*                                                                          *)
(* Text is a sequence of one-character strings.  An Optional[...] value is  *)
(* a sequence of length at most one: <<>> is None and <<v>> is the value v. *)
(***************************************************************************)
EXTENDS Integers, Sequences, FiniteSets, TLC

VARIABLES
    fnIn,      \* the argument handed to a pure helper
    fnOut,     \* what the helper returned
    fnPc,      \* "ready" before the helper ran, "done" after
    pc,        \* "idle" | "connecting" (client.get is running) | "done" (the call ended)
    call,      \* the operation called and its arguments
    request,   \* the GET handed to the client: endpoint, url, params, query_params, filters
    gets,      \* client.get calls made during the current call
    attempts,  \* connection attempts the transport made for the current GET
    sent,      \* requests that reached the upstream during the current call
    response,  \* the upstream's answer to the current GET, None before it
    result,    \* how the call ended: a returned value or a raised exception
    client,    \* the httpx client: "open" | "closed"
    ctx        \* the `with` block the server is used in: "inside" | "left"

vars == <<fnIn, fnOut, fnPc, pc, call, request, gets, attempts, sent, response, result, client, ctx>>
fnVars == <<fnIn, fnOut, fnPc>>
srvVars == <<pc, call, request, gets, attempts, sent, response, result, client, ctx>>

(***************************************************************************)
(* Optional values and text helpers                                        *)
(***************************************************************************)
None == <<>>
Some(v) == <<v>>

Take(s, n) == IF Len(s) <= n THEN s ELSE SubSeq(s, 1, n)

Rep(c, n) == [i \in 1..n |-> c]

\* all sequences over S of length at most n
RECURSIVE SeqsUpTo(_, _)
SeqsUpTo(S, n) ==
    IF n = 0 THEN {<<>>}
    ELSE LET shorter == SeqsUpTo(S, n - 1)
         IN  shorter \cup {Append(s, c) : s \in {t \in shorter : Len(t) = n - 1}, c \in S}

\* needle occurs in hay as a contiguous subsequence (Python's `in` on str)
Contains(hay, needle) ==
    \E h \in {hay} :
        \E i \in 0..(Len(h) - Len(needle)) :
            \A j \in 1..Len(needle) : h[i + j] = needle[j]

Digits == {"0", "1", "2", "3", "4", "5", "6", "7", "8", "9"}
Letters == {"a", "b", "c", "d", "e", "f", "g", "h", "i", "j", "k", "l", "m",
            "n", "o", "p", "q", "r", "s", "t", "u", "v", "w", "x", "y", "z",
            "A", "B", "C", "D", "E", "F", "G", "H", "I", "J", "K", "L", "M",
            "N", "O", "P", "Q", "R", "S", "T", "U", "V", "W", "X", "Y", "Z"}

DigitVal(c) ==
    CASE c = "0" -> 0 [] c = "1" -> 1 [] c = "2" -> 2 [] c = "3" -> 3
      [] c = "4" -> 4 [] c = "5" -> 5 [] c = "6" -> 6 [] c = "7" -> 7
      [] c = "8" -> 8 [] c = "9" -> 9

\* int() of a run of decimal digits
RECURSIVE IntOf(_)
IntOf(s) == IF s = <<>> THEN 0
            ELSE 10 * IntOf(SubSeq(s, 1, Len(s) - 1)) + DigitVal(s[Len(s)])

(***************************************************************************)
(* datetime.strptime(text, format) for a format of the three directives    *)
(* %Y, %m, %d in some order with one separator character between them.     *)
(* strptime matches, at the start of the text, the regular expression made *)
(* of  %Y = \d\d\d\d   %m = 1[0-2]|0[1-9]|[1-9]                            *)
(*     %d = 3[0-1]|[1-2]\d|0[1-9]|[1-9]| [1-9]                             *)
(* (alternatives tried in this order), fails when text remains after the   *)
(* match, and then builds the date, which fails for a day the month does   *)
(* not have and for year 0.                                                *)
(***************************************************************************)
IsLeap(y) == (y % 4 = 0 /\ y % 100 # 0) \/ y % 400 = 0

DaysInMonth(y, m) ==
    IF m = 2 THEN (IF IsLeap(y) THEN 29 ELSE 28)
    ELSE IF m \in {4, 6, 9, 11} THEN 30 ELSE 31

NonZero == Digits \ {"0"}

\* the lengths of the alternatives of directive dir that fit at position p,
\* in the order the regular expression tries them
AltLens(s, p, dir) ==
    LET has(i) == p + i <= Len(s)
        alt(ok, n) == IF ok THEN <<n>> ELSE <<>>
    IN  IF dir = "Y" THEN
            alt(has(3) /\ \A i \in 0..3 : s[p + i] \in Digits, 4)
        ELSE IF dir = "m" THEN
            alt(has(1) /\ s[p] = "1" /\ s[p + 1] \in {"0", "1", "2"}, 2)
            \o alt(has(1) /\ s[p] = "0" /\ s[p + 1] \in NonZero, 2)
            \o alt(has(0) /\ s[p] \in NonZero, 1)
        ELSE
            alt(has(1) /\ s[p] = "3" /\ s[p + 1] \in {"0", "1"}, 2)
            \o alt(has(1) /\ s[p] \in {"1", "2"} /\ s[p + 1] \in Digits, 2)
            \o alt(has(1) /\ s[p] = "0" /\ s[p + 1] \in NonZero, 2)
            \o alt(has(0) /\ s[p] \in NonZero, 1)
            \o alt(has(1) /\ s[p] = " " /\ s[p + 1] \in NonZero, 2)

\* the length directive dir takes at position p: the first alternative after
\* which the separator follows, or, for the last directive, the first one
FieldLen(s, p, dir, last, sep) ==
    LET lens == AltLens(s, p, dir)
        fits(n) == last \/ (p + n <= Len(s) /\ s[p + n] = sep)
        good == {k \in 1..Len(lens) : fits(lens[k])}
    IN  IF good = {} THEN 0
        ELSE lens[CHOOSE k \in good : \A j \in good : k <= j]

\* int() of a matched field (the day field may start with a blank)
FieldVal(t) == IntOf(IF t[1] = " " THEN Tail(t) ELSE t)

\* where the three fields start when their lengths are t
FieldStarts(t) == <<1, t[1] + 2, t[1] + t[2] + 3>>

\* the lengths of the three fields when the whole text matches the format
\* (one triple, or none)
MatchedLens(s, order, sep) ==
    {t \in (1..4) \X (1..4) \X (1..4) :
        /\ \A k \in 1..3 : t[k] = FieldLen(s, FieldStarts(t)[k], order[k], k = 3, sep)
        /\ FieldStarts(t)[3] + t[3] - 1 = Len(s)}

\* <<year, month, day>> of the matched fields
MatchedDate(s, order, t) ==
    LET val == [k \in 1..3 |->
                   FieldVal(SubSeq(s, FieldStarts(t)[k], FieldStarts(t)[k] + t[k] - 1))]
    IN  [i \in 1..3 |-> val[CHOOSE k \in 1..3 : order[k] = <<"Y", "m", "d">>[i]]]

\* datetime(year, month, day) can be built
IsDate(ymd) == ymd[1] >= 1 /\ ymd[3] <= DaysInMonth(ymd[1], ymd[2])

\* the one element of a set as an Optional, None for the empty set
OptionalOf(S) == IF S = {} THEN None ELSE Some(CHOOSE x \in S : TRUE)

\* None when strptime raises ValueError, else Some(<<year, month, day>>)
strptime(s, order, sep) ==
    OptionalOf({ymd \in {MatchedDate(s, order, t) : t \in MatchedLens(s, order, sep)} :
                   IsDate(ymd)})

FmtYmdDash == <<"Y", "m", "d">>

\* _validate_date_format
validate_date_format(date_str) ==
    IF date_str = <<>> THEN TRUE
    ELSE strptime(date_str, FmtYmdDash, "-") # None

(***************************************************************************)
(* _sanitize_string                                                        *)
(***************************************************************************)
SanitizeLimit == 500

WordChars == Letters \cup Digits \cup {"_"}
SpaceChars == {" ", "\t", "\n", "\r", "\f"}
KeptPunct == {"-", ".", ",", "(", ")", "[", "]", "'"}

\* re.sub with count=1: only the first disallowed character is removed
StripDisallowedOnce(value) ==
    LET bad == {i \in 1..Len(value) :
                   value[i] \notin WordChars \cup SpaceChars \cup KeptPunct}
    IN  IF bad = {} THEN value
        ELSE LET k == CHOOSE i \in bad : \A j \in bad : i <= j
             IN  SubSeq(value, 1, k - 1) \o SubSeq(value, k + 1, Len(value))

\* re.sub(r"[^\w\s\-.,()[\]']", "", value)
StripDisallowed(value) ==
    SelectSeq(value, LAMBDA c : c \in WordChars \cup SpaceChars \cup KeptPunct)

\* str.replace("'", "''")
\* (computed by halves: every character is replaced on its own)
RECURSIVE EscapeQuotes(_)
EscapeQuotes(s) ==
    IF s = <<>> THEN <<>>
    ELSE IF Len(s) = 1 THEN (IF s[1] = "'" THEN <<"'", "'">> ELSE s)
    ELSE LET h == Len(s) \div 2
         IN  EscapeQuotes(SubSeq(s, 1, h)) \o EscapeQuotes(SubSeq(s, h + 1, Len(s)))

sanitize_string(value) ==
    IF value = <<>> THEN value
    ELSE Take(EscapeQuotes(StripDisallowed(value)), SanitizeLimit)

(***************************************************************************)
(* _validate_enum                                                          *)
(***************************************************************************)
validate_enum(value, allowed_values) == value \in allowed_values

(***************************************************************************)
(* Text constants of server.py, character by character                     *)
(***************************************************************************)
\* 'Council Meeting'
S_CouncilMeeting == <<"C", "o", "u", "n", "c", "i", "l", " ", "M", "e", "e", "t",
    "i", "n", "g">>
\* 'House Committee'
S_HouseCommittee == <<"H", "o", "u", "s", "e", " ", "C", "o", "m", "m", "i", "t",
    "t", "e", "e">>
\* 'Finance Committee'
S_FinanceCommittee == <<"F", "i", "n", "a", "n", "c", "e", " ", "C", "o", "m", "m",
    "i", "t", "t", "e", "e">>
\* 'Establishment Subcommittee'
S_EstablishmentSubcommittee == <<"E", "s", "t", "a", "b", "l", "i", "s", "h", "m",
    "e", "n", "t", " ", "S", "u", "b", "c", "o", "m", "m", "i", "t", "t", "e", "e">>
\* 'Public Works Subcommittee'
S_PublicWorksSubcommittee == <<"P", "u", "b", "l", "i", "c", " ", "W", "o", "r", "k",
    "s", " ", "S", "u", "b", "c", "o", "m", "m", "i", "t", "t", "e", "e">>
\* 'InvalidType'
S_InvalidType == <<"I", "n", "v", "a", "l", "i", "d", "T", "y", "p", "e">>
\* 'oral'
S_oral == <<"o", "r", "a", "l">>
\* 'written'
S_written == <<"w", "r", "i", "t", "t", "e", "n">>
\* 'Oral'
S_Oral == <<"O", "r", "a", "l">>
\* 'Written'
S_Written == <<"W", "r", "i", "t", "t", "e", "n">>
\* 'Urgent'
S_Urgent == <<"U", "r", "g", "e", "n", "t">>
\* 'xml'
S_xml == <<"x", "m", "l">>
\* 'allpages'
S_allpages == <<"a", "l", "l", "p", "a", "g", "e", "s">>
\* '$format'
K_format == <<"$", "f", "o", "r", "m", "a", "t">>
\* '$top'
K_top == <<"$", "t", "o", "p">>
\* '$skip'
K_skip == <<"$", "s", "k", "i", "p">>
\* '$inlinecount'
K_inlinecount == <<"$", "i", "n", "l", "i", "n", "e", "c", "o", "u", "n", "t">>
\* '$filter'
K_filter == <<"$", "f", "i", "l", "t", "e", "r">>
\* "type eq '"
T_type_eq == <<"t", "y", "p", "e", " ", "e", "q", " ", "'">>
\* "'"
T_quote == <<"'">>
\* "start_date ge datetime'"
T_start_ge == <<"s", "t", "a", "r", "t", "_", "d", "a", "t", "e", " ", "g", "e", " ",
    "d", "a", "t", "e", "t", "i", "m", "e", "'">>
\* "start_date le datetime'"
T_start_le == <<"s", "t", "a", "r", "t", "_", "d", "a", "t", "e", " ", "l", "e", " ",
    "d", "a", "t", "e", "t", "i", "m", "e", "'">>
\* "substringof('"
T_substringof == <<"s", "u", "b", "s", "t", "r", "i", "n", "g", "o", "f", "(", "'">>
\* "', name_en)"
T_name_en == <<"'", ",", " ", "n", "a", "m", "e", "_", "e", "n", ")">>
\* "', motion_en)"
T_motion_en == <<"'", ",", " ", "m", "o", "t", "i", "o", "n", "_", "e", "n", ")">>
\* 'term_no eq '
T_term_no == <<"t", "e", "r", "m", "_", "n", "o", " ", "e", "q", " ">>
\* "', bill_title_eng)"
T_bill_title == <<"'", ",", " ", "b", "i", "l", "l", "_", "t", "i", "t", "l", "e",
    "_", "e", "n", "g", ")">>
\* 'year(bill_gazette_date) eq '
T_gazette_year == <<"y", "e", "a", "r", "(", "b", "i", "l", "l", "_", "g", "a", "z",
    "e", "t", "t", "e", "_", "d", "a", "t", "e", ")", " ", "e", "q", " ">>
\* "bill_gazette_date ge datetime'"
T_gazette_ge == <<"b", "i", "l", "l", "_", "g", "a", "z", "e", "t", "t", "e", "_",
    "d", "a", "t", "e", " ", "g", "e", " ", "d", "a", "t", "e", "t", "i", "m", "e",
    "'">>
\* "bill_gazette_date le datetime'"
T_gazette_le == <<"b", "i", "l", "l", "_", "g", "a", "z", "e", "t", "t", "e", "_",
    "d", "a", "t", "e", " ", "l", "e", " ", "d", "a", "t", "e", "t", "i", "m", "e",
    "'">>
\* "', SubjectName)"
T_SubjectName == <<"'", ",", " ", "S", "u", "b", "j", "e", "c", "t", "N", "a", "m",
    "e", ")">>
\* "', MemberName)"
T_MemberName == <<"'", ",", " ", "M", "e", "m", "b", "e", "r", "N", "a", "m", "e",
    ")">>
\* "MeetingDate eq datetime'"
T_MeetingDate == <<"M", "e", "e", "t", "i", "n", "g", "D", "a", "t", "e", " ", "e",
    "q", " ", "d", "a", "t", "e", "t", "i", "m", "e", "'">>
\* 'year(MeetingDate) eq '
T_year == <<"y", "e", "a", "r", "(", "M", "e", "e", "t", "i", "n", "g", "D", "a",
    "t", "e", ")", " ", "e", "q", " ">>
\* "', Subject)"
T_Subject == <<"'", ",", " ", "S", "u", "b", "j", "e", "c", "t", ")">>
\* "Speaker eq '"
T_Speaker == <<"S", "p", "e", "a", "k", "e", "r", " ", "e", "q", " ", "'">>
\* "QuestionType eq '"
T_QuestionType == <<"Q", "u", "e", "s", "t", "i", "o", "n", "T", "y", "p", "e", " ",
    "e", "q", " ", "'">>
\* "HansardType eq 'English'"
T_HansardType == <<"H", "a", "n", "s", "a", "r", "d", "T", "y", "p", "e", " ", "e",
    "q", " ", "'", "E", "n", "g", "l", "i", "s", "h", "'">>
\* ' and '
T_and == <<" ", "a", "n", "d", " ">>
\* '$inlinecount=allpages'
T_inlinecount_needle == <<"$", "i", "n", "l", "i", "n", "e", "c", "o", "u", "n", "t",
    "=", "a", "l", "l", "p", "a", "g", "e", "s">>
\* '<m:count>'
T_count_open == <<"<", "m", ":", "c", "o", "u", "n", "t", ">">>
\* '</m:count>'
T_count_close == <<"<", "/", "m", ":", "c", "o", "u", "n", "t", ">">>
\* 'HTTP error '
E_http == <<"H", "T", "T", "P", " ", "e", "r", "r", "o", "r", " ">>
\* ': '
E_colon == <<":", " ">>
\* 'Request error: '
E_request == <<"R", "e", "q", "u", "e", "s", "t", " ", "e", "r", "r", "o", "r", ":",
    " ">>
\* 'Invalid JSON response from API: '
E_json == <<"I", "n", "v", "a", "l", "i", "d", " ", "J", "S", "O", "N", " ", "r",
    "e", "s", "p", "o", "n", "s", "e", " ", "f", "r", "o", "m", " ", "A", "P", "I",
    ":", " ">>
\* 'Unexpected error: '
E_unexpected == <<"U", "n", "e", "x", "p", "e", "c", "t", "e", "d", " ", "e", "r",
    "r", "o", "r", ":", " ">>
\* 'Unknown endpoint: '
E_unknown_endpoint == <<"U", "n", "k", "n", "o", "w", "n", " ", "e", "n", "d", "p",
    "o", "i", "n", "t", ":", " ">>

\* 'Expecting value: line 1 column 1 (char 0)'
M_json_decode == <<"E", "x", "p", "e", "c", "t", "i", "n", "g", " ", "v", "a", "l",
    "u", "e", ":", " ", "l", "i", "n", "e", " ", "1", " ", "c", "o", "l", "u", "m",
    "n", " ", "1", " ", "(", "c", "h", "a", "r", " ", "0", ")">>
\* '[Errno 111] Connection refused'
M_connect == <<"[", "E", "r", "r", "n", "o", " ", "1", "1", "1", "]", " ", "C", "o",
    "n", "n", "e", "c", "t", "i", "o", "n", " ", "r", "e", "f", "u", "s", "e", "d">>
\* 'The read operation timed out'
M_read_timeout == <<"T", "h", "e", " ", "r", "e", "a", "d", " ", "o", "p", "e", "r",
    "a", "t", "i", "o", "n", " ", "t", "i", "m", "e", "d", " ", "o", "u", "t">>
\* "'list' object has no attribute 'get'"
M_no_get == <<"'", "l", "i", "s", "t", "'", " ", "o", "b", "j", "e", "c", "t", " ",
    "h", "a", "s", " ", "n", "o", " ", "a", "t", "t", "r", "i", "b", "u", "t", "e",
    " ", "'", "g", "e", "t", "'">>

\* str(n) of an integer
RECURSIVE NatToText(_)
NatToText(n) ==
    LET last == <<"0", "1", "2", "3", "4", "5", "6", "7", "8", "9">>[(n % 10) + 1]
    IN  IF n < 10 THEN <<last>> ELSE Append(NatToText(n \div 10), last)

IntToText(n) == IF n < 0 THEN <<"-">> \o NatToText(0 - n) ELSE NatToText(n)

(***************************************************************************)
(* Python dicts, in insertion order: a sequence of <<key, value>> pairs    *)
(***************************************************************************)
DictHas(d, k) == \E i \in 1..Len(d) : d[i][1] = k

DictGet(d, k) == d[CHOOSE i \in 1..Len(d) : d[i][1] = k][2]

DictSet(d, k, v) ==
    IF DictHas(d, k)
    THEN [i \in 1..Len(d) |-> IF d[i][1] = k THEN <<k, v>> ELSE d[i]]
    ELSE Append(d, <<k, v>>)

\* repr() of a str: in single quotes, or in double quotes when the text has
\* a single quote in it (the texts of this model hold no double quote)
ReprText(t) ==
    IF \E i \in 1..Len(t) : t[i] = "'" THEN <<"\"">> \o t \o <<"\"">>
    ELSE <<"'">> \o t \o <<"'">>

\* str() of a dict of str to str: {'k': 'v', 'k2': 'v2'}
RECURSIVE DictItemsText(_)
DictItemsText(d) ==
    IF d = <<>> THEN <<>>
    ELSE ReprText(d[1][1]) \o <<":", " ">> \o ReprText(d[1][2])
         \o (IF Len(d) > 1 THEN <<",", " ">> ELSE <<>>) \o DictItemsText(Tail(d))

DictText(d) == <<"{">> \o DictItemsText(d) \o <<"}">>

(***************************************************************************)
(* Truthiness of optional arguments: None, "" and 0 are false              *)
(***************************************************************************)
TruthyText(v) == v # None /\ v[1] # <<>>
TruthyInt(v) == v # None /\ v[1] # 0

(***************************************************************************)
(* LegCoSearchMCP.BASE_URLS                                                *)
(***************************************************************************)
BASE_URLS ==
    [voting |-> "https://app.legco.gov.hk/vrdb/odata/vVotingResult",
     bills |-> "https://app.legco.gov.hk/BillsDB/odata/Vbills",
     questions_oral |-> "https://app.legco.gov.hk/QuestionsDB/odata/ViewOralQuestionsEng",
     questions_written |-> "https://app.legco.gov.hk/QuestionsDB/odata/ViewWrittenQuestionsEng",
     hansard |-> "https://app.legco.gov.hk/OpenData/HansardDB/Hansard",
     hansard_questions |-> "https://app.legco.gov.hk/OpenData/HansardDB/Questions",
     hansard_bills |-> "https://app.legco.gov.hk/OpenData/HansardDB/Bills",
     hansard_motions |-> "https://app.legco.gov.hk/OpenData/HansardDB/Motions",
     hansard_voting |-> "https://app.legco.gov.hk/OpenData/HansardDB/VotingResults"]

MEETINGS_URL == "https://www.legco.gov.hk/tc/legco-business/council/council-meetings.html"

\* endpoint.startswith('hansard'), over the names an endpoint can have
StartsWithHansard(endpoint) ==
    endpoint \in {"hansard", "hansard_questions", "hansard_bills",
                  "hansard_motions", "hansard_voting"}

(***************************************************************************)
(* The params dict of _search_odata_endpoint: params.get(k) is None for a  *)
(* key the caller did not pass                                             *)
(***************************************************************************)
NoParams ==
    [meeting_type |-> None, start_date |-> None, end_date |-> None,
     member_name |-> None, motion_keywords |-> None, term_no |-> None,
     title_keywords |-> None, gazette_year |-> None, gazette_start_date |-> None,
     gazette_end_date |-> None, subject_keywords |-> None, meeting_date |-> None,
     year |-> None, speaker |-> None, question_type |-> None,
     top |-> None, skip |-> None, format |-> None]

(***************************************************************************)
(* _search_odata_endpoint, lines 403-479: query options and filter clauses *)
(***************************************************************************)
Clause(cond, text) == IF cond THEN <<text>> ELSE <<>>

\* voting_filters with the two date clauses appended in the other order
voting_filters_end_first(params) ==
    Clause(TruthyText(params.meeting_type),
           T_type_eq \o sanitize_string(params.meeting_type[1]) \o T_quote)
    \o Clause(TruthyText(params.end_date),
              T_start_le \o params.end_date[1] \o T_quote)
    \o Clause(TruthyText(params.start_date),
              T_start_ge \o params.start_date[1] \o T_quote)
    \o Clause(TruthyText(params.member_name),
              T_substringof \o sanitize_string(params.member_name[1]) \o T_name_en)
    \o Clause(TruthyText(params.motion_keywords),
              T_substringof \o sanitize_string(params.motion_keywords[1]) \o T_motion_en)
    \o Clause(TruthyInt(params.term_no),
              T_term_no \o IntToText(params.term_no[1]))

voting_filters(params) ==
    Clause(TruthyText(params.meeting_type),
           T_type_eq \o sanitize_string(params.meeting_type[1]) \o T_quote)
    \o Clause(TruthyText(params.start_date),
              T_start_ge \o params.start_date[1] \o T_quote)
    \o Clause(TruthyText(params.end_date),
              T_start_le \o params.end_date[1] \o T_quote)
    \o Clause(TruthyText(params.member_name),
              T_substringof \o sanitize_string(params.member_name[1]) \o T_name_en)
    \o Clause(TruthyText(params.motion_keywords),
              T_substringof \o sanitize_string(params.motion_keywords[1]) \o T_motion_en)
    \o Clause(TruthyInt(params.term_no),
              T_term_no \o IntToText(params.term_no[1]))

bills_filters(params) ==
    Clause(TruthyText(params.title_keywords),
           T_substringof \o sanitize_string(params.title_keywords[1]) \o T_bill_title)
    \o Clause(TruthyInt(params.gazette_year),
              T_gazette_year \o IntToText(params.gazette_year[1]))
    \o Clause(TruthyText(params.gazette_start_date),
              T_gazette_ge \o params.gazette_start_date[1] \o T_quote)
    \o Clause(TruthyText(params.gazette_end_date),
              T_gazette_le \o params.gazette_end_date[1] \o T_quote)

questions_filters(params) ==
    Clause(TruthyText(params.subject_keywords),
           T_substringof \o sanitize_string(params.subject_keywords[1]) \o T_SubjectName)
    \o Clause(TruthyText(params.member_name),
              T_substringof \o sanitize_string(params.member_name[1]) \o T_MemberName)
    \o Clause(TruthyText(params.meeting_date),
              T_MeetingDate \o params.meeting_date[1] \o T_quote)
    \o Clause(TruthyInt(params.year),
              T_year \o IntToText(params.year[1]))

hansard_filters(endpoint, params) ==
    Clause(TruthyText(params.subject_keywords),
           T_substringof \o sanitize_string(params.subject_keywords[1]) \o T_Subject)
    \o Clause(TruthyText(params.speaker),
              T_Speaker \o sanitize_string(params.speaker[1]) \o T_quote)
    \o Clause(TruthyText(params.meeting_date),
              T_MeetingDate \o params.meeting_date[1] \o T_quote)
    \o Clause(TruthyInt(params.year),
              T_year \o IntToText(params.year[1]))
    \o (IF TruthyText(params.question_type) /\ endpoint = "hansard_questions"
        THEN <<T_QuestionType \o sanitize_string(params.question_type[1]) \o T_quote,
               T_HansardType>>
        ELSE <<>>)

build_filters(endpoint, params) ==
    IF endpoint = "voting" THEN voting_filters(params)
    ELSE IF endpoint = "bills" THEN bills_filters(params)
    ELSE IF endpoint \in {"questions_oral", "questions_written"}
         THEN questions_filters(params)
    ELSE IF StartsWithHansard(endpoint) THEN hansard_filters(endpoint, params)
    ELSE <<>>

\* ' and '.join(filters)
RECURSIVE JoinAnd(_)
JoinAnd(filters) ==
    IF Len(filters) = 1 THEN filters[1]
    ELSE filters[1] \o T_and \o JoinAnd(Tail(filters))

\* build_query_params with `if params.get('skip'):` for the test of line 414:
\* a skip of 0 is left out
build_query_params_truthy_skip(params, filters) ==
    LET q1 == IF params.format = Some("xml") THEN <<<<K_format, S_xml>>>> ELSE <<>>
        q2 == IF params.top # None
              THEN DictSet(q1, K_top, IntToText(params.top[1])) ELSE q1
        q3 == IF TruthyInt(params.skip)
              THEN DictSet(q2, K_skip, IntToText(params.skip[1])) ELSE q2
        q4 == DictSet(q3, K_inlinecount, S_allpages)
    IN  IF filters # <<>> THEN DictSet(q4, K_filter, JoinAnd(filters)) ELSE q4

build_query_params(params, filters) ==
    LET q1 == IF params.format = Some("xml") THEN <<<<K_format, S_xml>>>> ELSE <<>>
        q2 == IF params.top # None
              THEN DictSet(q1, K_top, IntToText(params.top[1])) ELSE q1
        q3 == IF params.skip # None
              THEN DictSet(q2, K_skip, IntToText(params.skip[1])) ELSE q2
        q4 == DictSet(q3, K_inlinecount, S_allpages)
    IN  IF filters # <<>> THEN DictSet(q4, K_filter, JoinAnd(filters)) ELSE q4

(***************************************************************************)
(* _extract_xml_count: re.search(r'<m:count>(\d+)</m:count>', xml_content) *)
(***************************************************************************)
StartsAt(s, p, t) ==
    /\ p + Len(t) - 1 <= Len(s)
    /\ \A j \in 1..Len(t) : s[p + j - 1] = t[j]

\* the number of digits at position p and on
RECURSIVE DigitRun(_, _)
DigitRun(s, p) ==
    IF p > Len(s) \/ s[p] \notin Digits THEN 0 ELSE 1 + DigitRun(s, p + 1)

\* the pattern matches with its first character at position p
CountMatchAt(s, p) ==
    /\ StartsAt(s, p, T_count_open)
    /\ LET dp == p + Len(T_count_open)
           n == DigitRun(s, dp)
       IN  n >= 1 /\ StartsAt(s, dp + n, T_count_close)

extract_xml_count(xml_content) ==
    LET hits == {p \in 1..Len(xml_content) : CountMatchAt(xml_content, p)}
    IN  IF hits = {} THEN None
        ELSE LET p == CHOOSE q \in hits : \A r \in hits : q <= r
                 dp == p + Len(T_count_open)
             IN  Some(IntOf(SubSeq(xml_content, dp, dp + DigitRun(xml_content, dp) - 1)))

(***************************************************************************)
(* Argument values and upstream bodies the calls are drawn from            *)
(***************************************************************************)
\* "O'Brien"
V_OBrien == <<"O", "'", "B", "r", "i", "e", "n">>
\* 'housing; DROP'
V_housing == <<"h", "o", "u", "s", "i", "n", "g", ";", " ", "D", "R", "O", "P">>
\* 'tax'
V_tax == <<"t", "a", "x">>
\* '2023-01-01'
V_date_ok == <<"2", "0", "2", "3", "-", "0", "1", "-", "0", "1">>
\* '2023-12-31'
V_date_end == <<"2", "0", "2", "3", "-", "1", "2", "-", "3", "1">>
\* '2023-13-01'
V_date_month13 == <<"2", "0", "2", "3", "-", "1", "3", "-", "0", "1">>
\* '2023-1-1'
V_date_short == <<"2", "0", "2", "3", "-", "1", "-", "1">>
\* 'invalid-date'
V_invalid_date == <<"i", "n", "v", "a", "l", "i", "d", "-", "d", "a", "t", "e">>
\* '<feed><m:count>42</m:count></feed>'
X_count42 == <<"<", "f", "e", "e", "d", ">", "<", "m", ":", "c", "o", "u", "n", "t",
    ">", "4", "2", "<", "/", "m", ":", "c", "o", "u", "n", "t", ">", "<", "/", "f",
    "e", "e", "d", ">">>
\* '<feed><entry/></feed>'
X_nocount == <<"<", "f", "e", "e", "d", ">", "<", "e", "n", "t", "r", "y", "/", ">",
    "<", "/", "f", "e", "e", "d", ">">>
\* '<m:count>x</m:count><m:count>7</m:count>'
X_count_second == <<"<", "m", ":", "c", "o", "u", "n", "t", ">", "x", "<", "/", "m",
    ":", "c", "o", "u", "n", "t", ">", "<", "m", ":", "c", "o", "u", "n", "t", ">",
    "7", "<", "/", "m", ":", "c", "o", "u", "n", "t", ">">>
\* '{"d":{"__count":"42","results":[]}}'
B_json_count == <<"{", "\"", "d", "\"", ":", "{", "\"", "_", "_", "c", "o", "u", "n",
    "t", "\"", ":", "\"", "4", "2", "\"", ",", "\"", "r", "e", "s", "u", "l", "t",
    "s", "\"", ":", "[", "]", "}", "}">>
\* '{"d":{"results":[]}}'
B_json_nocount == <<"{", "\"", "d", "\"", ":", "{", "\"", "r", "e", "s", "u", "l",
    "t", "s", "\"", ":", "[", "]", "}", "}">>
\* '{"value":[]}'
B_json_value == <<"{", "\"", "v", "a", "l", "u", "e", "\"", ":", "[", "]", "}">>
\* '{"d":[]}'
B_json_dlist == <<"{", "\"", "d", "\"", ":", "[", "]", "}">>
\* '[]'
B_json_list == <<"[", "]">>
\* '<html>'
B_html == <<"<", "h", "t", "m", "l", ">">>
\* 'http://x/a.pdf'
H_abs == <<"h", "t", "t", "p", ":", "/", "/", "x", "/", "a", ".", "p", "d", "f">>
\* '/a.pdf'
H_rel == <<"/", "a", ".", "p", "d", "f">>
\* 'https://www.legco.gov.hk'
H_origin == <<"h", "t", "t", "p", "s", ":", "/", "/", "w", "w", "w", ".", "l", "e",
    "g", "c", "o", ".", "g", "o", "v", ".", "h", "k">>
\* 'http'
H_http == <<"h", "t", "t", "p">>
\* '2024-01-10'
R_iso == <<"2", "0", "2", "4", "-", "0", "1", "-", "1", "0">>
\* '10/01/2024'
R_dmy_slash == <<"1", "0", "/", "0", "1", "/", "2", "0", "2", "4">>
\* '2023/05/03'
R_ymd_slash == <<"2", "0", "2", "3", "/", "0", "5", "/", "0", "3">>
\* '03-05-2023'
R_dmy_dash == <<"0", "3", "-", "0", "5", "-", "2", "0", "2", "3">>
\* 'TBC'
R_tbc == <<"T", "B", "C">>
\* '2024-1-10'
V_date_row_short == <<"2", "0", "2", "4", "-", "1", "-", "1", "0">>
\* 'Agenda'
A_agenda == <<"A", "g", "e", "n", "d", "a">>
\* 'Minutes'
A_link == <<"M", "i", "n", "u", "t", "e", "s">>

(***************************************************************************)
(* JSON values as response.json() yields them, tagged with their Python    *)
(* type                                                                    *)
(***************************************************************************)
JDict(m) == [t |-> "dict", m |-> m]
JList(items) == [t |-> "list", items |-> items]
JStr(text) == [t |-> "str", text |-> text]

J_count == JDict("d" :> JDict(("__count" :> JStr(<<"4", "2">>)) @@ ("results" :> JList(<<>>))))
J_nocount == JDict("d" :> JDict("results" :> JList(<<>>)))
J_value == JDict("value" :> JList(<<>>))
J_dlist == JDict("d" :> JList(<<>>))
J_list == JList(<<>>)

(***************************************************************************)
(* What the upstream can answer: status, content-type header, body text,   *)
(* and json: what response.json() yields for the body, None when the body  *)
(* is not JSON (json.JSONDecodeError)                                      *)
(***************************************************************************)
MaxBodyOver == 1

ErrorExcerptLimit == 200
RequestExcerptLimit == 200
JsonExcerptLimit == 100

Resp(status, ctype, text, json) ==
    [status |-> status, content_type |-> ctype, text |-> text, json |-> json, rows |-> <<>>]

SuccessResponses ==
    {Resp(200, Some("application/atom+xml"), X_count42, None),
     Resp(200, None, X_nocount, None),
     Resp(200, None, X_count_second, None),
     Resp(200, Some("application/json"), B_json_count, Some(J_count)),
     Resp(200, None, B_json_nocount, Some(J_nocount)),
     Resp(200, None, B_json_value, Some(J_value)),
     Resp(200, None, B_json_dlist, Some(J_dlist)),
     Resp(200, None, B_json_list, Some(J_list)),
     Resp(204, None, <<>>, None)}

ErrorBodyLens == {0} \cup ((ErrorExcerptLimit - 1)..(ErrorExcerptLimit + MaxBodyOver))

ErrorResponses ==
    {Resp(status, None, Rep("e", n), None) : status \in {404, 500}, n \in ErrorBodyLens}

ODataResponses == SuccessResponses \cup ErrorResponses

\* the council-meetings page, as BeautifulSoup sees its table rows
Row(cells, date_text, links) ==
    [cells |-> cells, date_text |-> date_text, agenda |-> A_agenda, links |-> links]

PageRows ==
    <<Row(2, R_iso, <<[text |-> A_link, href |-> H_rel]>>),
      Row(1, <<>>, <<>>),
      Row(2, R_dmy_slash, <<[text |-> A_link, href |-> H_abs]>>),
      Row(2, R_ymd_slash, <<>>),
      Row(3, R_dmy_dash, <<>>),
      Row(2, R_tbc, <<>>)>>

PageResponses ==
    {[Resp(200, Some("text/html"), B_html, None) EXCEPT !.rows = PageRows],
     Resp(200, Some("text/html"), B_html, None),
     Resp(404, None, B_html, None),
     Resp(500, None, B_html, None)}

\* response.raise_for_status() raises unless the status is 2xx
IsSuccess(status) == status \in 200..299

(***************************************************************************)
(* How a call ends                                                         *)
(***************************************************************************)
Returned(value) == [kind |-> "return", value |-> value]
Raised(exc, msg) == [kind |-> "raise", exc |-> exc, msg |-> msg]
NoResult == [kind |-> "none"]

(***************************************************************************)
(* _search_odata_endpoint, lines 487-526: the response, or the exception   *)
(* the transport raised, turned into the call's result                     *)
(***************************************************************************)
\* the excerpt without the [:200] of line 512: the whole body
http_error_excerpt_whole(text) == text

\* e.response.text[:200]
http_error_excerpt(text) == Take(text, ErrorExcerptLimit)

http_status_error(resp) ==
    Raised("LegCoAPIError",
           E_http \o IntToText(resp.status) \o E_colon
               \o http_error_excerpt(resp.text))

request_error(text) ==
    Raised("LegCoAPIError", E_request \o Take(text, RequestExcerptLimit))

\* the _metadata block added to a JSON object
metadata(endpoint, query_params, json_data) ==
    [endpoint |-> endpoint,
     query_params |-> SelectSeq(query_params, LAMBDA kv : ~StartsAt(kv[1], 1, <<"$">>)),
     total_available |->
        IF "d" \in DOMAIN json_data.m
        THEN (IF "__count" \in DOMAIN json_data.m["d"].m
              THEN Some(json_data.m["d"].m["__count"]) ELSE None)
        ELSE None]

json_result(endpoint, query_params, resp) ==
    IF resp.json = None
    THEN Raised("LegCoAPIError", E_json \o Take(M_json_decode, JsonExcerptLimit))
    ELSE LET json_data == resp.json[1]
         IN  IF json_data.t # "dict" THEN Returned(json_data)
             ELSE IF "d" \in DOMAIN json_data.m /\ json_data.m["d"].t # "dict"
             THEN Raised("LegCoAPIError", E_unexpected \o Take(M_no_get, RequestExcerptLimit))
             ELSE Returned(JDict(("_metadata" :> metadata(endpoint, query_params, json_data))
                                 @@ json_data.m))

xml_result(query_params, resp) ==
    Returned([data |-> resp.text,
              format |-> "xml",
              content_type |-> IF resp.content_type = None
                               THEN "application/xml" ELSE resp.content_type[1],
              total_records |->
                  IF Contains(DictText(query_params), T_inlinecount_needle)
                  THEN extract_xml_count(resp.text) ELSE None])

odata_result(endpoint, params, query_params, resp) ==
    IF ~IsSuccess(resp.status) THEN http_status_error(resp)
    ELSE IF params.format = Some("xml") THEN xml_result(query_params, resp)
    ELSE json_result(endpoint, query_params, resp)

(***************************************************************************)
(* The argument validation of the five tools (lines 117-140, 178-195,      *)
(* 233-250, 291-311, 346-350): None, or the field of the first ValueError  *)
(***************************************************************************)
MEETING_TYPES == {S_CouncilMeeting, S_HouseCommittee, S_FinanceCommittee,
                  S_EstablishmentSubcommittee, S_PublicWorksSubcommittee}
QUESTION_TYPES == {S_oral, S_written}
HANSARD_TYPES == {"hansard", "questions", "bills", "motions", "voting"}
HANSARD_QUESTION_TYPES == {S_Oral, S_Written, S_Urgent}
FORMATS == {"json", "xml"}

TopMin == 1
TopMax == 1000
TermNoMin == 1
GazetteYearMin == 1800
YearMin == 2000
YearMax == 2100

\* `if date and not self._validate_date_format(date)`
bad_date(v) == TruthyText(v) /\ ~validate_date_format(v[1])

\* `if year and (not isinstance(year, int) or year < lo or year > hi)`
bad_year(v, lo, hi) == TruthyInt(v) /\ (v[1] < lo \/ v[1] > hi)

\* paging_validation without the range checks of lines 133-137: a tool that
\* checked only the format would send top = 0 or skip = -1 upstream
paging_validation_format_only(a) ==
    IF a.format[1] \notin {"json", "xml"} THEN Some("format") ELSE None

\* the checks every OData tool ends with: top, skip, format
paging_validation(a) ==
    IF a.top[1] < TopMin \/ a.top[1] > TopMax THEN Some("top")
    ELSE IF a.skip[1] < 0 THEN Some("skip")
    ELSE IF a.format[1] \notin FORMATS THEN Some("format")
    ELSE None

voting_validation(a) ==
    IF TruthyText(a.meeting_type) /\ ~validate_enum(a.meeting_type[1], MEETING_TYPES)
    THEN Some("meeting_type")
    ELSE IF bad_date(a.start_date) THEN Some("start_date")
    ELSE IF bad_date(a.end_date) THEN Some("end_date")
    ELSE IF TruthyInt(a.term_no) /\ a.term_no[1] < TermNoMin THEN Some("term_no")
    ELSE paging_validation(a)

bills_validation(a) ==
    IF bad_year(a.gazette_year, GazetteYearMin, YearMax) THEN Some("gazette_year")
    ELSE IF bad_date(a.gazette_start_date) THEN Some("gazette_start_date")
    ELSE IF bad_date(a.gazette_end_date) THEN Some("gazette_end_date")
    ELSE paging_validation(a)

questions_validation(a) ==
    IF ~validate_enum(a.question_type[1], QUESTION_TYPES) THEN Some("question_type")
    ELSE IF bad_date(a.meeting_date) THEN Some("meeting_date")
    ELSE IF bad_year(a.year, YearMin, YearMax) THEN Some("year")
    ELSE paging_validation(a)

\* hansard_validation without the hansard_type check of lines 292-293
hansard_validation_type_unchecked(a) ==
    IF bad_date(a.meeting_date) THEN Some("meeting_date")
    ELSE IF bad_year(a.year, YearMin, YearMax) THEN Some("year")
    ELSE IF TruthyText(a.question_type)
            /\ ~validate_enum(a.question_type[1], HANSARD_QUESTION_TYPES)
    THEN Some("question_type")
    ELSE paging_validation(a)

hansard_validation(a) ==
    IF ~validate_enum(a.hansard_type, HANSARD_TYPES) THEN Some("hansard_type")
    ELSE IF bad_date(a.meeting_date) THEN Some("meeting_date")
    ELSE IF bad_year(a.year, YearMin, YearMax) THEN Some("year")
    ELSE IF TruthyText(a.question_type)
            /\ ~validate_enum(a.question_type[1], HANSARD_QUESTION_TYPES)
    THEN Some("question_type")
    ELSE paging_validation(a)

summaries_validation(a) ==
    IF bad_year(a.year, YearMin, YearMax) THEN Some("year")
    ELSE IF bad_date(a.date) THEN Some("date")
    ELSE None

(***************************************************************************)
(* The params dict each tool hands to _search_odata_endpoint               *)
(***************************************************************************)
voting_params(a) ==
    [NoParams EXCEPT !.meeting_type = a.meeting_type, !.start_date = a.start_date,
                     !.end_date = a.end_date, !.member_name = a.member_name,
                     !.motion_keywords = a.motion_keywords, !.term_no = a.term_no,
                     !.top = a.top, !.skip = a.skip, !.format = a.format]

bills_params(a) ==
    [NoParams EXCEPT !.title_keywords = a.title_keywords, !.gazette_year = a.gazette_year,
                     !.gazette_start_date = a.gazette_start_date,
                     !.gazette_end_date = a.gazette_end_date,
                     !.top = a.top, !.skip = a.skip, !.format = a.format]

questions_params(a) ==
    [NoParams EXCEPT !.subject_keywords = a.subject_keywords,
                     !.member_name = a.member_name, !.meeting_date = a.meeting_date,
                     !.year = a.year, !.top = a.top, !.skip = a.skip, !.format = a.format]

hansard_params(a) ==
    [NoParams EXCEPT !.subject_keywords = a.subject_keywords, !.speaker = a.speaker,
                     !.meeting_date = a.meeting_date, !.year = a.year,
                     !.question_type = a.question_type,
                     !.top = a.top, !.skip = a.skip, !.format = a.format]

questions_endpoint(a) ==
    IF a.question_type[1] = S_oral THEN "questions_oral" ELSE "questions_written"

\* endpoint_map.get(hansard_type, 'hansard')
hansard_endpoint(a) ==
    CASE a.hansard_type = "hansard" -> "hansard"
      [] a.hansard_type = "questions" -> "hansard_questions"
      [] a.hansard_type = "bills" -> "hansard_bills"
      [] a.hansard_type = "motions" -> "hansard_motions"
      [] a.hansard_type = "voting" -> "hansard_voting"
      [] OTHER -> "hansard"

(***************************************************************************)
(* search_meeting_summaries, lines 355-395: the rows kept from the page    *)
(***************************************************************************)
\* the formats tried on a row's date text, in order
ROW_FORMATS == <<[order |-> <<"Y", "m", "d">>, sep |-> "-"],
                 [order |-> <<"d", "m", "Y">>, sep |-> "/"],
                 [order |-> <<"Y", "m", "d">>, sep |-> "/"],
                 [order |-> <<"d", "m", "Y">>, sep |-> "-"]>>

\* the first element of a sequence of Optionals that is not None
FirstSome(rs) ==
    IF \A k \in 1..Len(rs) : rs[k] = None THEN None
    ELSE rs[CHOOSE k \in 1..Len(rs) : rs[k] # None /\ \A j \in 1..(k - 1) : rs[j] = None]

\* the first format that parses the text: None when none does
parse_row_date(date_text) ==
    FirstSome([k \in 1..Len(ROW_FORMATS) |->
                  strptime(date_text, ROW_FORMATS[k].order, ROW_FORMATS[k].sep)])

\* n in decimal, zero-padded to w digits
RECURSIVE Padded(_, _)
Padded(n, w) == IF w = 0 THEN <<>> ELSE Padded(n \div 10, w - 1) \o NatToText(n % 10)

\* parsed_date.strftime("%Y-%m-%d")
strftime_ymd(d) == Padded(d[1], 4) \o <<"-">> \o Padded(d[2], 2) \o <<"-">> \o Padded(d[3], 2)

row_kept(row, a) ==
    /\ row.cells >= 2
    /\ (TruthyInt(a.year) \/ TruthyText(a.date)) =>
          \E parsed \in {parse_row_date(row.date_text)} :
              /\ parsed # None
              /\ TruthyInt(a.year) => parsed[1][1] = a.year[1]
              /\ TruthyText(a.date) => strftime_ymd(parsed[1]) = a.date[1]

meeting_of(row) ==
    [date |-> row.date_text,
     agenda |-> row.agenda,
     links |-> [i \in 1..Len(row.links) |->
                   [text |-> row.links[i].text,
                    url |-> IF StartsAt(row.links[i].href, 1, H_http)
                            THEN row.links[i].href
                            ELSE H_origin \o row.links[i].href]]]

\* the loop over soup.select("table tr"): the rows kept, in page order
meetings_of(rows, a) ==
    LET kept == SelectSeq(rows, LAMBDA row : row_kept(row, a))
    IN  [i \in 1..Len(kept) |-> meeting_of(kept[i])]

\* resp.raise_for_status() is not caught here: the httpx exception leaves the tool
summaries_result(a, resp) ==
    IF ~IsSuccess(resp.status) THEN Raised("httpx.HTTPStatusError", resp.text)
    ELSE Returned([meetings |-> meetings_of(resp.rows, a)])

(***************************************************************************)
(* The server's state between calls, and the two ways a tool goes on       *)
(***************************************************************************)
NoCall == [op |-> "none", args |-> NoParams]

NoRequest ==
    [endpoint |-> "none", url |-> "none", params |-> NoParams,
     query_params |-> <<>>, filters |-> <<>>, accept |-> "none"]

\* the call ends before any request: an exception leaves the tool
Finish(c, res) ==
    /\ call' = c
    /\ result' = res
    /\ pc' = "done"
    /\ request' = NoRequest
    /\ gets' = 0
    /\ attempts' = 0
    /\ sent' = 0
    /\ response' = None

\* self.client.get(url, ...) is called
Get(c, req) ==
    /\ call' = c
    /\ request' = req
    /\ pc' = "connecting"
    /\ gets' = 1
    /\ attempts' = 0
    /\ sent' = 0
    /\ response' = None
    /\ result' = NoResult

\* _search_odata_endpoint, lines 399-487
search_odata_endpoint(c, endpoint, params) ==
    IF endpoint \notin DOMAIN BASE_URLS
    THEN Finish(c, Raised("LegCoAPIError", E_unknown_endpoint \o <<endpoint>>))
    ELSE LET filters == build_filters(endpoint, params)
         IN  Get(c, [endpoint |-> endpoint,
                     url |-> BASE_URLS[endpoint],
                     params |-> params,
                     query_params |-> build_query_params(params, filters),
                     filters |-> filters,
                     accept |-> IF params.format # Some("xml")
                                THEN "application/json" ELSE "application/xml"])

\* a call is taken when no call is running and the client is in use
CanCall == pc = "idle" /\ client = "open"

\* a tool: validate, raise ValueError for the first violation, else search
Tool(op, a, err, endpoint, params) ==
    LET c == [op |-> op, args |-> a]
    IN  /\ IF err # None THEN Finish(c, Raised("ValueError", err[1]))
           ELSE search_odata_endpoint(c, endpoint, params)
        /\ UNCHANGED <<fnVars, client, ctx>>

(***************************************************************************)
(* The arguments the calls are drawn from                                  *)
(***************************************************************************)
TopArgs == {Some(0), Some(100), Some(1001)}
SkipArgs == {Some(-1), Some(0)}
FormatArgs == {Some("json"), Some("xml"), Some("csv")}
DateArgs == {None, Some(V_date_ok), Some(V_date_short), Some(V_date_month13)}
YearArgs == {None, Some(0), Some(1999), Some(2023)}

search_voting_results ==
    /\ CanCall
    /\ \E meeting_type \in {None, Some(S_CouncilMeeting), Some(S_InvalidType)},
          start_date \in {None, Some(V_date_ok), Some(V_date_month13)},
          end_date \in {None, Some(V_date_end)},
          member_name \in {None, Some(V_OBrien)},
          motion_keywords \in {None, Some(<<>>)},
          term_no \in {None, Some(0), Some(-1), Some(7)},
          top \in TopArgs, skip \in SkipArgs, format \in FormatArgs :
           LET a == [meeting_type |-> meeting_type, start_date |-> start_date,
                     end_date |-> end_date, member_name |-> member_name,
                     motion_keywords |-> motion_keywords, term_no |-> term_no,
                     top |-> top, skip |-> skip, format |-> format]
           IN  Tool("search_voting_results", a, voting_validation(a),
                    "voting", voting_params(a))

search_bills ==
    /\ CanCall
    /\ \E title_keywords \in {None, Some(V_housing), Some(V_OBrien)},
          gazette_year \in {None, Some(0), Some(1799), Some(2023), Some(2101)},
          gazette_start_date \in DateArgs,
          gazette_end_date \in {None, Some(V_date_end)},
          top \in TopArgs, skip \in SkipArgs, format \in FormatArgs :
           LET a == [title_keywords |-> title_keywords, gazette_year |-> gazette_year,
                     gazette_start_date |-> gazette_start_date,
                     gazette_end_date |-> gazette_end_date,
                     top |-> top, skip |-> skip, format |-> format]
           IN  Tool("search_bills", a, bills_validation(a), "bills", bills_params(a))

search_questions ==
    /\ CanCall
    /\ \E question_type \in {Some(S_oral), Some(S_written), Some(S_Oral)},
          subject_keywords \in {None, Some(V_housing)},
          member_name \in {None, Some(V_OBrien)},
          meeting_date \in DateArgs,
          year \in YearArgs,
          top \in TopArgs, skip \in SkipArgs, format \in FormatArgs :
           LET a == [question_type |-> question_type, subject_keywords |-> subject_keywords,
                     member_name |-> member_name, meeting_date |-> meeting_date,
                     year |-> year, top |-> top, skip |-> skip, format |-> format]
           IN  Tool("search_questions", a, questions_validation(a),
                    questions_endpoint(a), questions_params(a))

search_hansard ==
    /\ CanCall
    /\ \E hansard_type \in HANSARD_TYPES \cup {"other"},
          subject_keywords \in {None, Some(V_tax)},
          speaker \in {None, Some(V_OBrien)},
          meeting_date \in {None, Some(V_date_ok), Some(V_invalid_date)},
          year \in YearArgs,
          question_type \in {None, Some(S_Oral), Some(S_oral)},
          top \in TopArgs, skip \in SkipArgs, format \in FormatArgs :
           LET a == [hansard_type |-> hansard_type, subject_keywords |-> subject_keywords,
                     speaker |-> speaker, meeting_date |-> meeting_date, year |-> year,
                     question_type |-> question_type,
                     top |-> top, skip |-> skip, format |-> format]
           IN  Tool("search_hansard", a, hansard_validation(a),
                    hansard_endpoint(a), hansard_params(a))

search_meeting_summaries ==
    /\ CanCall
    /\ \E year \in {None, Some(0), Some(1999), Some(2023), Some(2024)},
          date \in {None, Some(R_iso), Some(V_date_row_short), Some(V_invalid_date)} :
           LET a == [year |-> year, date |-> date]
               c == [op |-> "search_meeting_summaries", args |-> a]
               err == summaries_validation(a)
           IN  /\ IF err # None THEN Finish(c, Raised("ValueError", err[1]))
                  ELSE Get(c, [NoRequest EXCEPT !.endpoint = "meetings", !.url = MEETINGS_URL])
               /\ UNCHANGED <<fnVars, client, ctx>>

\* _search_odata_endpoint called as test_parameter_validation calls it
call_search_odata_endpoint ==
    /\ CanCall
    /\ \E endpoint \in {"voting", "hansard_questions", "nosuch"},
          meeting_type \in {None, Some(S_CouncilMeeting), Some(S_InvalidType)},
          start_date \in {None, Some(V_date_ok), Some(V_invalid_date)},
          top \in {None, Some(10)},
          format \in {None, Some("json"), Some("xml")} :
           LET params == [NoParams EXCEPT !.meeting_type = meeting_type,
                                          !.start_date = start_date,
                                          !.top = top, !.skip = Some(0), !.format = format]
               c == [op |-> "_search_odata_endpoint",
                     args |-> [endpoint |-> endpoint, params |-> params]]
           IN  /\ search_odata_endpoint(c, endpoint, params)
               /\ UNCHANGED <<fnVars, client, ctx>>

(***************************************************************************)
(* The transport: httpx.Client(transport=httpx.HTTPTransport(retries=3)).  *)
(* A connection that cannot be made is tried again, `retries` times; once  *)
(* the request is sent, nothing is tried again.                            *)
(***************************************************************************)
Retries == 3

IsSummaries == call.op = "search_meeting_summaries"

\* an httpx.RequestError of class exc: wrapped by _search_odata_endpoint,
\* not caught by search_meeting_summaries
transport_error(exc, text) ==
    IF IsSummaries THEN Raised(exc, text) ELSE request_error(text)

ConnectRetry ==
    /\ pc = "connecting"
    /\ attempts < Retries
    /\ attempts' = attempts + 1
    /\ UNCHANGED <<fnVars, pc, call, request, gets, sent, response, result, client, ctx>>

ConnectGiveUp ==
    /\ pc = "connecting"
    /\ attempts = Retries
    /\ attempts' = attempts + 1
    /\ result' = transport_error("httpx.ConnectError", M_connect)
    /\ pc' = "done"
    /\ UNCHANGED <<fnVars, call, request, gets, sent, response, client, ctx>>

ReadFail ==
    /\ pc = "connecting"
    /\ attempts' = attempts + 1
    /\ sent' = sent + 1
    /\ result' = transport_error("httpx.ReadTimeout", M_read_timeout)
    /\ pc' = "done"
    /\ UNCHANGED <<fnVars, call, request, gets, response, client, ctx>>

\* the upstream answers the GET of _search_odata_endpoint
Answer ==
    /\ pc = "connecting"
    /\ ~IsSummaries
    /\ \E r \in ODataResponses :
          /\ response' = Some(r)
          /\ result' = odata_result(request.endpoint, request.params,
                                    request.query_params, r)
    /\ attempts' = attempts + 1
    /\ sent' = sent + 1
    /\ pc' = "done"
    /\ UNCHANGED <<fnVars, call, request, gets, client, ctx>>

\* the web site answers the GET of search_meeting_summaries
AnswerPage ==
    /\ pc = "connecting"
    /\ IsSummaries
    /\ \E r \in PageResponses :
          /\ response' = Some(r)
          /\ result' = summaries_result(call.args, r)
    /\ attempts' = attempts + 1
    /\ sent' = sent + 1
    /\ pc' = "done"
    /\ UNCHANGED <<fnVars, call, request, gets, client, ctx>>

\* the result goes to the caller; nothing of the call is kept
Return ==
    /\ pc = "done"
    /\ pc' = "idle"
    /\ call' = NoCall
    /\ request' = NoRequest
    /\ gets' = 0
    /\ attempts' = 0
    /\ sent' = 0
    /\ response' = None
    /\ result' = NoResult
    /\ UNCHANGED <<fnVars, client, ctx>>

\* the with block is left and __exit__ does not close the client
exit_without_close ==
    /\ ctx = "inside"
    /\ pc = "idle" \/ (pc = "done" /\ result.kind = "raise")
    /\ ctx' = "left"
    /\ UNCHANGED <<fnVars, pc, call, request, gets, attempts, sent, response, result,
                   client>>

\* __exit__: the with block is left, between calls when its body finished
\* normally, or by the exception a call raised; the client is closed
exit ==
    /\ ctx = "inside"
    /\ pc = "idle" \/ (pc = "done" /\ result.kind = "raise")
    /\ client' = "closed"
    /\ ctx' = "left"
    /\ UNCHANGED <<fnVars, pc, call, request, gets, attempts, sent, response, result>>

(***************************************************************************)
(* The pure helpers, applied to inputs drawn from bounded sets             *)
(***************************************************************************)
MaxText == 3

\* the characters free text is drawn from: kept ones and stripped ones
TextAlphabet == {"a", "'", ";", " "}

\* free text: short strings, and strings long enough to reach the length limit
SanInputs ==
    {Rep("a", k) \o t :
        k \in {0} \cup ((SanitizeLimit - MaxText)..SanitizeLimit),
        t \in SeqsUpTo(TextAlphabet, MaxText)}

YearParts == {<<"2", "0", "2", "3">>, <<"2", "0", "2", "4">>, <<"1", "9", "0", "0">>,
              <<"2", "0", "0", "0">>, <<"0", "0", "0", "0">>, <<"2", "0", "2">>,
              <<"2", "0", "2", "x">>}
SepParts == {<<"-">>, <<"/">>, <<>>}
MonthParts == {<<"0", "1">>, <<"1">>, <<"0", "2">>, <<"2">>, <<"1", "2">>, <<"1", "3">>,
               <<"0", "0">>, <<"0">>, <<"0", "4">>, <<" ", "1">>, <<"0", "0", "1">>}
DayParts == {<<"0", "1">>, <<"1">>, <<"2", "8">>, <<"2", "9">>, <<"3", "0">>, <<"3", "1">>,
             <<"3", "2">>, <<"0", "0">>, <<" ", "1">>, <<"1", " ">>, <<"0", "1", "1">>}

DateInputs ==
    {<<>>, <<"i", "n", "v", "a", "l", "i", "d">>}
    \cup {y \o s1 \o m \o s2 \o d :
             y \in YearParts, s1 \in SepParts, m \in MonthParts,
             s2 \in SepParts, d \in DayParts}

SrvIdle ==
    /\ pc = "idle"
    /\ call = NoCall
    /\ request = NoRequest
    /\ gets = 0
    /\ attempts = 0
    /\ sent = 0
    /\ response = None
    /\ result = NoResult
    /\ client = "open"
    /\ ctx = "inside"

Init ==
    /\ fnIn = <<>>
    /\ fnOut = <<>>
    /\ fnPc = "off"
    /\ SrvIdle

Next ==
    \/ search_voting_results
    \/ search_bills
    \/ search_questions
    \/ search_hansard
    \/ search_meeting_summaries
    \/ call_search_odata_endpoint
    \/ ConnectRetry
    \/ ConnectGiveUp
    \/ ReadFail
    \/ Answer
    \/ AnswerPage
    \/ Return
    \/ exit

Spec == Init /\ [][Next]_vars

SanInit ==
    /\ fnIn \in SanInputs
    /\ fnOut = <<>>
    /\ fnPc = "ready"
    /\ SrvIdle

Sanitize ==
    /\ fnPc = "ready"
    /\ fnOut' = sanitize_string(fnIn)
    /\ fnPc' = "done"
    /\ UNCHANGED <<fnIn, srvVars>>

SanNext == Sanitize

SanSpec == SanInit /\ [][SanNext]_vars

\* the sanitizer applied to its own output: fnOut becomes the pair of the
\* first and the second output
SanitizeAgain ==
    /\ fnPc = "done"
    /\ fnOut' = <<fnOut, sanitize_string(fnOut)>>
    /\ fnPc' = "again"
    /\ UNCHANGED <<fnIn, srvVars>>

SanTwiceNext == Sanitize \/ SanitizeAgain

SanTwiceSpec == SanInit /\ [][SanTwiceNext]_vars

DateInit ==
    /\ fnIn \in DateInputs
    /\ fnOut = FALSE
    /\ fnPc = "ready"
    /\ SrvIdle

ValidateDate ==
    /\ fnPc = "ready"
    /\ fnOut' = validate_date_format(fnIn)
    /\ fnPc' = "done"
    /\ UNCHANGED <<fnIn, srvVars>>

DateNext == ValidateDate

DateSpec == DateInit /\ [][DateNext]_vars

(***************************************************************************)
(* What the properties below say of a call                                 *)
(***************************************************************************)
ODATA_TOOLS == {"search_voting_results", "search_bills", "search_questions",
                "search_hansard"}

\* the call in progress ended in a ValueError
EndedInValueError == pc = "done" /\ result.kind = "raise" /\ result.exc = "ValueError"

\* the running call's arguments fail the validation of its tool
FailsValidation ==
    CASE call.op = "search_voting_results" -> voting_validation(call.args) # None
      [] call.op = "search_bills" -> bills_validation(call.args) # None
      [] call.op = "search_questions" -> questions_validation(call.args) # None
      [] call.op = "search_hansard" -> hansard_validation(call.args) # None
      [] call.op = "search_meeting_summaries" -> summaries_validation(call.args) # None
      [] OTHER -> FALSE

\* top or skip of the running call is out of range
BadPaging ==
    /\ call.op \in ODATA_TOOLS
    /\ (call.args.top[1] < 1 \/ call.args.top[1] > 1000 \/ call.args.skip[1] < 0)

(***************************************************************************)
(* C1: in each of the five tools, a call whose arguments fail validation   *)
(* (in particular top outside [1,1000] or skip < 0) ends in a ValueError,  *)
(* and no GET was issued on the client during the call: a call that ends   *)
(* in a ValueError has made no request, and a call with failing arguments  *)
(* is never waiting on the transport.                                      *)
(***************************************************************************)
C1_ValidationBeforeRequest ==
    /\ EndedInValueError =>
          (gets = 0 /\ attempts = 0 /\ sent = 0 /\ response = None /\ request = NoRequest)
    /\ (pc # "idle" /\ (FailsValidation \/ BadPaging)) => EndedInValueError

\* C1: search_bills(top=0) and search_meeting_summaries(year=1999) have ended
\* in a ValueError with no GET issued
C1_Witness ==
    /\ EndedInValueError
    /\ gets = 0
    /\ \/ call.op = "search_bills" /\ call.args.top = Some(0) /\ result.msg = "top"
       \/ call.op = "search_meeting_summaries" /\ call.args.year = Some(1999)

(***************************************************************************)
(* C2: every maximal run of single quotes in the sanitizer's output has    *)
(* even length (no bare single quote), also when the output was truncated. *)
(***************************************************************************)
RECURSIVE QuoteRunLen(_, _)
QuoteRunLen(s, i) ==
    IF i > Len(s) \/ s[i] # "'" THEN 0 ELSE 1 + QuoteRunLen(s, i + 1)

NoBareQuote(s) ==
    \A i \in 1..Len(s) :
        (s[i] = "'" /\ (i = 1 \/ s[i - 1] # "'")) => QuoteRunLen(s, i) % 2 = 0

C2_NoBareQuote == fnPc = "done" => NoBareQuote(fnOut)

\* C2: the sanitizer has run on a text whose escaped form is longer than the
\* limit, and its output is cut to the limit
C2_Witness ==
    /\ fnPc = "done"
    /\ Len(EscapeQuotes(StripDisallowed(fnIn))) > SanitizeLimit
    /\ Len(fnOut) = SanitizeLimit

(***************************************************************************)
(* C3: a supplied term_no < 1 (0 included), a supplied gazette_year        *)
(* outside [1800,2100] and a supplied year outside [2000,2100] (0          *)
(* included) each make the tool end in a ValueError.                       *)
(***************************************************************************)
OutOfRange(v, lo, hi) == v # None /\ (v[1] < lo \/ v[1] > hi)

SuppliedOutOfRange ==
    CASE call.op = "search_voting_results" -> call.args.term_no # None /\ call.args.term_no[1] < 1
      [] call.op = "search_bills" -> OutOfRange(call.args.gazette_year, 1800, 2100)
      [] call.op \in {"search_questions", "search_hansard"} ->
            OutOfRange(call.args.year, 2000, 2100)
      [] OTHER -> FALSE

C3_OutOfRangeRejected ==
    (pc # "idle" /\ SuppliedOutOfRange) => EndedInValueError

\* C3: search_voting_results(term_no=0) with otherwise valid arguments has
\* issued its GET
C3_Witness ==
    /\ pc = "connecting"
    /\ call.op = "search_voting_results"
    /\ call.args.term_no = Some(0)
    /\ gets = 1

(***************************************************************************)
(* C4: when the request had format='xml' and the upstream answered 2xx,    *)
(* the call returns; total_records is N when the body holds                *)
(* <m:count>N</m:count>, and None when the body holds no such element.     *)
(***************************************************************************)
XmlAnswered ==
    /\ pc = "done"
    /\ call.op \in ODATA_TOOLS
    /\ request.params.format = Some("xml")
    /\ response # None
    /\ IsSuccess(response[1].status)

C4_XmlTotalRecords ==
    XmlAnswered =>
        /\ result.kind = "return"
        /\ response[1].text = X_count42 => result.value.total_records = Some(42)
        /\ response[1].text = X_nocount => result.value.total_records = None

\* C4: an xml request was answered with a body holding <m:count>42</m:count>
C4_Witness == XmlAnswered /\ response[1].text = X_count42 /\ result.kind = "return"

(***************************************************************************)
(* C5: the compiled $filter holds exactly one clause per supplied non-null *)
(* semantic field: the number of clauses equals the number of non-null     *)
(* filter fields of the request.                                           *)
(***************************************************************************)
\* the documented filter fields of an endpoint, in the documented order,
\* each with the text its clause starts and ends with
FilterField(field, int, pre, post) ==
    [field |-> field, int |-> int, pre |-> pre, post |-> post]

FILTER_FIELDS(endpoint) ==
    IF endpoint = "voting"
    THEN <<FilterField("meeting_type", FALSE, T_type_eq, T_quote),
           FilterField("start_date", FALSE, T_start_ge, T_quote),
           FilterField("end_date", FALSE, T_start_le, T_quote),
           FilterField("member_name", FALSE, T_substringof, T_name_en),
           FilterField("motion_keywords", FALSE, T_substringof, T_motion_en),
           FilterField("term_no", TRUE, T_term_no, <<>>)>>
    ELSE IF endpoint = "bills"
    THEN <<FilterField("title_keywords", FALSE, T_substringof, T_bill_title),
           FilterField("gazette_year", TRUE, T_gazette_year, <<>>),
           FilterField("gazette_start_date", FALSE, T_gazette_ge, T_quote),
           FilterField("gazette_end_date", FALSE, T_gazette_le, T_quote)>>
    ELSE IF endpoint \in {"questions_oral", "questions_written"}
    THEN <<FilterField("subject_keywords", FALSE, T_substringof, T_SubjectName),
           FilterField("member_name", FALSE, T_substringof, T_MemberName),
           FilterField("meeting_date", FALSE, T_MeetingDate, T_quote),
           FilterField("year", TRUE, T_year, <<>>)>>
    ELSE <<FilterField("subject_keywords", FALSE, T_substringof, T_Subject),
           FilterField("speaker", FALSE, T_Speaker, T_quote),
           FilterField("meeting_date", FALSE, T_MeetingDate, T_quote),
           FilterField("year", TRUE, T_year, <<>>),
           FilterField("question_type", FALSE, T_QuestionType, T_quote)>>

\* a request was compiled for an OData endpoint
Compiled == pc # "idle" /\ request.endpoint \in DOMAIN BASE_URLS

NonNullFields ==
    SelectSeq(FILTER_FIELDS(request.endpoint),
              LAMBDA f : request.params[f.field] # None)

C5_ClausePerNonNullField ==
    Compiled => Len(request.filters) = Len(NonNullFields)

(***************************************************************************)
(* C5, amended: the compiled $filter holds one clause per filter field     *)
(* whose value is truthy (not None, not "", not 0), in the documented      *)
(* per-endpoint field order, joined by " and "; question_type of the       *)
(* hansard family counts only on hansard_questions, where its clause is    *)
(* followed by the fixed clause HansardType eq 'English'; with no clause   *)
(* there is no $filter.                                                    *)
(***************************************************************************)
TruthyField(f) ==
    /\ request.params[f.field] # None
    /\ request.params[f.field][1] # (IF f.int THEN 0 ELSE <<>>)
    /\ f.field = "question_type" => request.endpoint = "hansard_questions"

TruthyFields == SelectSeq(FILTER_FIELDS(request.endpoint), TruthyField)

\* the clause is the one of field f: it has f's opening and f's closing text
ClauseOfField(clause, f) ==
    /\ Len(clause) >= Len(f.pre) + Len(f.post)
    /\ SubSeq(clause, 1, Len(f.pre)) = f.pre
    /\ SubSeq(clause, Len(clause) - Len(f.post) + 1, Len(clause)) = f.post

LocalePinned ==
    \E k \in 1..Len(TruthyFields) : TruthyFields[k].field = "question_type"

C5_ClausePerTruthyField ==
    Compiled =>
        /\ Len(request.filters) = Len(TruthyFields) + (IF LocalePinned THEN 1 ELSE 0)
        /\ \A k \in 1..Len(TruthyFields) :
              ClauseOfField(request.filters[k], TruthyFields[k])
        /\ LocalePinned => request.filters[Len(request.filters)] = T_HansardType
        /\ IF request.filters = <<>> THEN ~DictHas(request.query_params, K_filter)
           ELSE DictGet(request.query_params, K_filter) = JoinAnd(request.filters)

\* "type eq 'Council Meeting' and start_date ge datetime'2023-01-01' and start_date le datetime'2023-12-31'"
W_filter_scenario == <<"t", "y", "p", "e", " ", "e", "q", " ", "'", "C", "o", "u",
    "n", "c", "i", "l", " ", "M", "e", "e", "t", "i", "n", "g", "'", " ", "a", "n",
    "d", " ", "s", "t", "a", "r", "t", "_", "d", "a", "t", "e", " ", "g", "e", " ",
    "d", "a", "t", "e", "t", "i", "m", "e", "'", "2", "0", "2", "3", "-", "0", "1",
    "-", "0", "1", "'", " ", "a", "n", "d", " ", "s", "t", "a", "r", "t", "_", "d",
    "a", "t", "e", " ", "l", "e", " ", "d", "a", "t", "e", "t", "i", "m", "e", "'",
    "2", "0", "2", "3", "-", "1", "2", "-", "3", "1", "'">>
\* C5: search_voting_results(meeting_type="Council Meeting",
\* start_date="2023-01-01", end_date="2023-12-31") has compiled its request
C5_Witness ==
    /\ pc = "connecting"
    /\ call.op = "search_voting_results"
    /\ Len(request.filters) = 3
    /\ DictGet(request.query_params, K_filter) = W_filter_scenario

(***************************************************************************)
(* C6: every request search_hansard compiles for hansard_questions has the *)
(* clause HansardType eq 'English' in its $filter, and a QuestionType      *)
(* clause too when question_type is supplied.                              *)
(***************************************************************************)
HansardQuestionsCompiled ==
    /\ pc # "idle"
    /\ call.op = "search_hansard"
    /\ request.endpoint = "hansard_questions"

C6_LocalePinned ==
    HansardQuestionsCompiled =>
        /\ \E k \in 1..Len(request.filters) : request.filters[k] = T_HansardType
        /\ call.args.question_type # None =>
              \E k \in 1..Len(request.filters) :
                  ClauseOfField(request.filters[k],
                                FilterField("question_type", FALSE, T_QuestionType, T_quote))

\* C6: search_hansard(hansard_type='questions') without question_type has
\* compiled its request
C6_Witness == HansardQuestionsCompiled /\ call.args.question_type = None

(***************************************************************************)
(* C7: in each of the five tools, a non-2xx status, a network failure and  *)
(* a body that is not JSON reach the caller as LegCoAPIError, never as an  *)
(* exception of the transport library, and nothing is returned with it.    *)
(***************************************************************************)
\* the GET of the running call failed: no answer, or an answer that is not 2xx
TransportFailed ==
    /\ pc = "done"
    /\ gets = 1
    /\ (response = None \/ ~IsSuccess(response[1].status))

C7_DomainErrorOnly ==
    /\ TransportFailed => (result.kind = "raise" /\ result.exc = "LegCoAPIError")
    /\ (pc = "done" /\ result.kind = "raise") =>
          result.exc \in {"ValueError", "LegCoAPIError"}

\* C7: the page of search_meeting_summaries was answered with status 500
C7_Witness ==
    /\ TransportFailed
    /\ call.op = "search_meeting_summaries"
    /\ response # None
    /\ response[1].status = 500

(***************************************************************************)
(* C8: when the upstream answers an OData request with a non-2xx status    *)
(* (HTTP 500, say), the call ends in a LegCoAPIError whose message holds   *)
(* the status code and the first 200 characters of the body at most, and   *)
(* the request was sent once: it is not sent again after the answer, and   *)
(* the connection attempts never exceed the retry bound.                   *)
(***************************************************************************)
ErrorAnswered ==
    /\ pc = "done"
    /\ call.op \in ODATA_TOOLS \cup {"_search_odata_endpoint"}
    /\ response # None
    /\ ~IsSuccess(response[1].status)

C8_HttpErrorExcerpt ==
    /\ sent <= 1
    /\ attempts <= Retries + 1
    /\ ErrorAnswered =>
          /\ result.kind = "raise"
          /\ result.exc = "LegCoAPIError"
          /\ \E n \in 0..200 :
                /\ n <= Len(response[1].text)
                /\ result.msg = E_http \o IntToText(response[1].status) \o E_colon
                                    \o SubSeq(response[1].text, 1, n)
          /\ sent = 1
          /\ gets = 1

\* C8: HTTP 500 with a body of more than 200 characters, after the
\* connection was retried
C8_Witness ==
    /\ ErrorAnswered
    /\ response[1].status = 500
    /\ Len(response[1].text) > 200
    /\ attempts > 1

(***************************************************************************)
(* C9: _search_odata_endpoint('voting', ...) called with a meeting_type    *)
(* outside the allow-list, or with a start_date that is not a valid        *)
(* YYYY-MM-DD date, ends in a ValueError and issues no request.            *)
(***************************************************************************)
DirectVotingInvalid ==
    /\ pc # "idle"
    /\ call.op = "_search_odata_endpoint"
    /\ call.args.endpoint = "voting"
    /\ \/ call.args.params.meeting_type \notin {None} \cup {Some(t) : t \in MEETING_TYPES}
       \/ bad_date(call.args.params.start_date)

C9_NoBypass == DirectVotingInvalid => (EndedInValueError /\ gets = 0)

\* C9: the direct call with meeting_type='InvalidType' has issued its GET
C9_Witness ==
    /\ DirectVotingInvalid
    /\ call.args.params.meeting_type = Some(S_InvalidType)
    /\ pc = "connecting"
    /\ gets = 1
    /\ request.filters # <<>>

(***************************************************************************)
(* C10: date validation accepts exactly the empty string and the valid     *)
(* calendar dates written as four-digit year, two-digit month, two-digit   *)
(* day, separated by "-"; it rejects every other text.                     *)
(***************************************************************************)
IsExactYMD(s) ==
    /\ Len(s) = 10
    /\ \A i \in {1, 2, 3, 4, 6, 7, 9, 10} : s[i] \in Digits
    /\ s[5] = "-" /\ s[8] = "-"
    /\ LET y == IntOf(SubSeq(s, 1, 4))
           m == IntOf(SubSeq(s, 6, 7))
           d == IntOf(SubSeq(s, 9, 10))
       IN  y >= 1 /\ m \in 1..12 /\ d \in 1..DaysInMonth(y, m)

C10_DateExact ==
    fnPc = "done" => (fnOut <=> (fnIn = <<>> \/ IsExactYMD(fnIn)))

\* C10: '2023-1-1' was validated, and accepted
C10_Witness == fnPc = "done" /\ fnIn = V_date_short /\ fnOut

(***************************************************************************)
(* C11: on a successful JSON answer that is an object, the metadata block   *)
(* holds the endpoint name and the query parameters that were applied:      *)
(* when the request compiled at least one filter clause, the echoed query   *)
(* parameters are not empty and hold that filter.                           *)
(***************************************************************************)
\* the call returned a JSON object with its metadata block
JsonObjectReturned ==
    /\ pc = "done"
    /\ call.op \in ODATA_TOOLS
    /\ request.params.format # Some("xml")
    /\ result.kind = "return"
    /\ result.value.t = "dict"

C11_MetadataEchoesFilter ==
    JsonObjectReturned =>
        LET md == result.value.m["_metadata"]
        IN  /\ md.endpoint = request.endpoint
            /\ request.filters # <<>> =>
                  \E i \in 1..Len(md.query_params) :
                      md.query_params[i][2] = JoinAnd(request.filters)

\* C11: a request with a filter clause was answered with a JSON object
C11_Witness ==
    /\ JsonObjectReturned
    /\ request.filters # <<>>
    /\ DictHas(request.query_params, K_filter)
    /\ result.value.m["_metadata"].query_params = <<>>

(***************************************************************************)
(* C12: search_hansard never falls back to the base 'hansard' endpoint: a   *)
(* hansard_type outside {hansard, questions, bills, motions, voting} ends   *)
(* in an error before any request, and each allowed hansard_type is routed  *)
(* to its own endpoint.                                                     *)
(***************************************************************************)
HANSARD_ROUTE ==
    [hansard |-> "hansard", questions |-> "hansard_questions", bills |-> "hansard_bills",
     motions |-> "hansard_motions", voting |-> "hansard_voting"]

C12_NoFallback ==
    (pc # "idle" /\ call.op = "search_hansard") =>
        IF call.args.hansard_type \in DOMAIN HANSARD_ROUTE
        THEN gets = 1 =>
                /\ request.endpoint = HANSARD_ROUTE[call.args.hansard_type]
                /\ request.url = BASE_URLS[HANSARD_ROUTE[call.args.hansard_type]]
        ELSE EndedInValueError /\ result.msg = "hansard_type" /\ gets = 0

\* C12: search_hansard(hansard_type='other') with otherwise valid arguments
\* has ended in the ValueError for hansard_type
C12_Witness ==
    /\ call.op = "search_hansard"
    /\ call.args.hansard_type = "other"
    /\ call.args.top = Some(100) /\ call.args.skip = Some(0)
    /\ call.args.meeting_date = None /\ call.args.year = None
    /\ EndedInValueError
    /\ gets = 0

\* C12: search_hansard(hansard_type='motions') has issued its GET to the
\* motions endpoint
C12_Routed ==
    /\ pc = "connecting"
    /\ call.op = "search_hansard"
    /\ call.args.hansard_type = "motions"
    /\ request.endpoint = "hansard_motions"

(***************************************************************************)
(* C13: the sanitizer is idempotent: for every string s,                    *)
(* _sanitize_string(_sanitize_string(s)) = _sanitize_string(s).             *)
(***************************************************************************)
C13_Idempotent == fnPc = "again" => fnOut[2] = fnOut[1]

(***************************************************************************)
(* C13, amended: for every string s that holds no single quote,             *)
(* _sanitize_string(_sanitize_string(s)) = _sanitize_string(s).             *)
(***************************************************************************)
HasQuote(s) == \E i \in 1..Len(s) : s[i] = "'"

C13_IdempotentWithoutQuote ==
    (fnPc = "again" /\ ~HasQuote(fnIn)) => fnOut[2] = fnOut[1]

\* C13: a text without a quote, with a character the sanitizer strips, longer
\* than the limit, was sanitized twice
C13_Witness ==
    /\ fnPc = "again"
    /\ ~HasQuote(fnIn)
    /\ Len(fnIn) > SanitizeLimit
    /\ \E i \in 1..Len(fnIn) : fnIn[i] = ";"
    /\ fnOut[1] # fnIn
    /\ fnOut[2] = fnOut[1]

(***************************************************************************)
(* C14: validation is fail-fast in the documented rule order: when a call   *)
(* violates several rules, the error reported is the one of the earliest    *)
(* rule in the order enum fields, date fields, numeric ranges, format; in   *)
(* search_hansard an invalid question_type is reported in preference to an  *)
(* invalid meeting_date or an out-of-range year.                            *)
(***************************************************************************)
\* the place of a field's rule in the documented order
RuleClass(field) ==
    IF field \in {"meeting_type", "question_type", "hansard_type"} THEN 1
    ELSE IF field \in {"start_date", "end_date", "gazette_start_date",
                       "gazette_end_date", "meeting_date"} THEN 2
    ELSE IF field \in {"term_no", "gazette_year", "year", "top", "skip"} THEN 3
    ELSE 4

\* the running call violates an enum rule, a date rule, a range rule
EnumViolated ==
    CASE call.op = "search_voting_results" ->
            TruthyText(call.args.meeting_type) /\ call.args.meeting_type[1] \notin MEETING_TYPES
      [] call.op = "search_questions" -> call.args.question_type[1] \notin QUESTION_TYPES
      [] call.op = "search_hansard" ->
            \/ call.args.hansard_type \notin HANSARD_TYPES
            \/ /\ TruthyText(call.args.question_type)
               /\ call.args.question_type[1] \notin HANSARD_QUESTION_TYPES
      [] OTHER -> FALSE

DateViolated ==
    CASE call.op = "search_voting_results" ->
            bad_date(call.args.start_date) \/ bad_date(call.args.end_date)
      [] call.op = "search_bills" ->
            bad_date(call.args.gazette_start_date) \/ bad_date(call.args.gazette_end_date)
      [] OTHER -> bad_date(call.args.meeting_date)

RangeViolated ==
    \/ BadPaging
    \/ CASE call.op = "search_voting_results" ->
               TruthyInt(call.args.term_no) /\ call.args.term_no[1] < 1
         [] call.op = "search_bills" -> bad_year(call.args.gazette_year, 1800, 2100)
         [] OTHER -> bad_year(call.args.year, 2000, 2100)

EarliestViolated ==
    IF EnumViolated THEN 1 ELSE IF DateViolated THEN 2 ELSE IF RangeViolated THEN 3 ELSE 4

C14_DocumentedOrder ==
    (EndedInValueError /\ call.op \in ODATA_TOOLS) =>
        RuleClass(result.msg) = EarliestViolated

\* C14: search_hansard with an invalid question_type and an invalid
\* meeting_date has ended in its ValueError
C14_Witness ==
    /\ EndedInValueError
    /\ call.op = "search_hansard"
    /\ call.args.hansard_type \in HANSARD_TYPES
    /\ call.args.question_type = Some(S_oral)
    /\ call.args.meeting_date = Some(V_invalid_date)
    /\ result.msg = "meeting_date"

(***************************************************************************)
(* C15: on a successful JSON answer the absence of the nested count never   *)
(* turns success into failure: when the JSON holds d.__count the metadata's *)
(* total count equals it; otherwise (no 'd', 'd' without '__count', 'd'     *)
(* that is not an object) the total count is None and the payload is        *)
(* returned all the same.                                                   *)
(***************************************************************************)
\* a JSON request was answered 2xx with a body that is JSON
JsonAnswered ==
    /\ pc = "done"
    /\ call.op \in ODATA_TOOLS
    /\ request.params.format # Some("xml")
    /\ response # None
    /\ IsSuccess(response[1].status)
    /\ response[1].json # None

\* d.__count of a JSON object, None when there is none
NestedCount(j) ==
    IF "d" \in DOMAIN j.m /\ j.m["d"].t = "dict" /\ "__count" \in DOMAIN j.m["d"].m
    THEN Some(j.m["d"].m["__count"]) ELSE None

C15_CountAbsenceIsNotFailure ==
    JsonAnswered =>
        /\ result.kind = "return"
        /\ response[1].json[1].t = "dict" =>
              /\ result.value.m["_metadata"].total_available = NestedCount(response[1].json[1])
              /\ \A k \in DOMAIN response[1].json[1].m :
                    result.value.m[k] = response[1].json[1].m[k]

\* C15: the JSON object {"d": []} was the answer, and the call raised
C15_Witness ==
    /\ JsonAnswered
    /\ response[1].json = Some(J_dlist)
    /\ result.kind = "raise"

(***************************************************************************)
(* C16: every request of the four OData tools carries $inlinecount with     *)
(* the value allpages, and $top and $skip with the validated values (the    *)
(* defaults 100 and 0 included); it carries $format, with the value xml,    *)
(* only when format='xml' was asked for.                                    *)
(***************************************************************************)
\* the option is set, to a decimal text of value n
OptionIs(q, k, n) ==
    /\ DictHas(q, k)
    /\ DictGet(q, k) # <<>>
    /\ \A i \in 1..Len(DictGet(q, k)) : DictGet(q, k)[i] \in Digits
    /\ IntOf(DictGet(q, k)) = n

C16_QueryOptions ==
    (pc # "idle" /\ call.op \in ODATA_TOOLS /\ gets = 1) =>
        /\ DictHas(request.query_params, K_inlinecount)
        /\ DictGet(request.query_params, K_inlinecount) = S_allpages
        /\ call.args.top[1] \in 1..1000
        /\ OptionIs(request.query_params, K_top, call.args.top[1])
        /\ call.args.skip[1] >= 0
        /\ OptionIs(request.query_params, K_skip, call.args.skip[1])
        /\ DictHas(request.query_params, K_format) <=> call.args.format = Some("xml")
        /\ DictHas(request.query_params, K_format) =>
              DictGet(request.query_params, K_format) = S_xml

\* C16: search_bills() with the default top, skip and format has issued its GET
C16_Witness ==
    /\ pc = "connecting"
    /\ call.op = "search_bills"
    /\ call.args.top = Some(100) /\ call.args.skip = Some(0)
    /\ call.args.format = Some("json")
    /\ DictGet(request.query_params, K_top) = <<"1", "0", "0">>
    /\ DictGet(request.query_params, K_skip) = <<"0">>
    /\ ~DictHas(request.query_params, K_format)

(***************************************************************************)
(* C17: the client is open for the whole time the server is used inside     *)
(* its with block, and closed once the block is left, whether its body      *)
(* finished normally or raised; no request is issued on a closed client.    *)
(***************************************************************************)
C17_ClientScoped ==
    /\ ctx = "inside" => client = "open"
    /\ ctx = "left" => client = "closed"
    /\ pc = "connecting" => (client = "open" /\ ctx = "inside")

\* C17: the with block was left by the exception of a call that had issued
\* its GET, and the client is closed
C17_Witness ==
    /\ ctx = "left"
    /\ client = "closed"
    /\ pc = "done"
    /\ result.kind = "raise"
    /\ gets = 1

====
